---- MODULE Spec2Model ----
(***************************************************************************)
(* Model of sports-service/main.py: the standings aggregation              *)
(* (calculate_standings) and the four HTTP handlers around it.             *)
(*                                                                         *)
(* Each request runs in its own stack frame; the frame's locals are the    *)
(* per-request components of the variables below.  The external provider   *)
(* (nfl_data_py) is the environment: every retrieval either returns some   *)
(* data frame or raises.                                                   *)
(***************************************************************************)
EXTENDS Integers, Sequences, FiniteSets, TLC

\* ---------------------------------------------------------------- bounds
MaxGames == 2
MaxPoints == 1
MaxPlayers == 1

\* ------------------------------------------------------- the environment
Requests == {1, 2}
Serial == {1}
Teams == {"CHI", "GB"}
Errors == {"timeout", "no data"}

\* pandas NaN / None of a numeric cell: the empty option; <<v>> is a value v
NA == <<>>
\* pandas NaN of an object (string) cell
NaN == "NaN"

Game(h, a, hs, as) ==
    [home_team |-> h, away_team |-> a, home_score |-> <<hs>>,
     away_score |-> <<as>>, result |-> <<hs - as>>]

Unplayed(h, a) ==
    [home_team |-> h, away_team |-> a, home_score |-> NA,
     away_score |-> NA, result |-> NA]

\* final scores of a game: at most MaxPoints points scored in all
ScorePairs ==
    {p \in (0..MaxPoints) \X (0..MaxPoints) : p[1] + p[2] <= MaxPoints}

GameRows ==
    {Game(h, a, p[1], p[2]) : h \in Teams, a \in Teams, p \in ScorePairs}
      \cup {Unplayed(h, a) : h \in Teams, a \in Teams}

\* what import_schedules may return: any frame of at most MaxGames rows
Schedules == UNION {[1..n -> GameRows] : n \in 0..MaxGames}

Meta(c, d) == [team_conf |-> c, team_division |-> d]

\* what import_team_desc may return, already indexed by team_abbr
TeamMaps ==
    { [t \in {"CHI", "GB"} |-> Meta("NFC", "NFC North")],
      [t \in {"CHI"} |-> Meta("NFC", "NFC North")] }

ColumnSets == {{"team", "player_name", "age"}, {"team", "position"}}

RosterRows(cols) ==
    {row \in [cols -> Teams \cup {"x", NaN}] :
        /\ row["team"] \in Teams
        /\ \A c \in cols \ {"team"} : row[c] \in {"x", NaN}}

\* what import_seasonal_rosters may return
RosterFrames ==
    UNION {{[columns |-> cols, rows |-> rs] :
              rs \in UNION {[1..n -> RosterRows(cols)] : n \in 0..MaxPlayers}} :
           cols \in ColumnSets}

\* inputs of the two-requests-in-flight specification
ConcSchedules ==
    { <<>>,
      <<Game("CHI", "GB", 1, 0), Unplayed("GB", "CHI")>>,
      <<Game("GB", "GB", 0, 0), Game("GB", "CHI", 0, 1)>> }

ConcTeamMaps ==
    { [t \in {"CHI", "GB"} |-> Meta("NFC", "NFC North")],
      [t \in {"CHI"} |-> Meta("NFC", "NFC North")] }

ConcRosterFrames ==
    { [columns |-> {"team", "position"},
       rows |-> <<[team |-> "CHI", position |-> NaN]>>] }

\* ------------------------------------------------------------- helpers
RECURSIVE GCD(_, _)
GCD(a, b) == IF b = 0 THEN a ELSE GCD(b, a % b)

\* a rational number num/den in lowest terms
Ratio(num, den) == <<num \div GCD(num, den), den \div GCD(num, den)>>

Min(S) == CHOOSE x \in S : \A y \in S : x <= y

Range(s) == {s[k] : k \in 1..Len(s)}

Perms(S) == {o \in [1..Cardinality(S) -> S] : Range(o) = S}

\* ------------------------------------------------- calculate_standings
NotNa(x) == x # NA

\* variant of Completed that tests the truth value of result: a 0 is dropped too
CompletedTruthy(games) ==
    SelectSeq(games, LAMBDA g : g.result # NA /\ g.result # <<0>>)

\* games[games['result'].notna()]
Completed(games) == SelectSeq(games, LAMBDA g : NotNa(g.result))

\* set(games['home_team'].unique()) | set(games['away_team'].unique())
TeamsOf(games) ==
    {games[k].home_team : k \in 1..Len(games)}
      \cup {games[k].away_team : k \in 1..Len(games)}

ZeroStats ==
    [wins |-> 0, losses |-> 0, ties |-> 0, points_for |-> 0, points_against |-> 0]

InitStandings(teams) == [t \in teams |-> ZeroStats]

\* variant of UpdatePoints with = for +=
UpdatePointsOverwrite(st, g) ==
    LET home == g.home_team
        away == g.away_team
        s1 == [st EXCEPT ![home].points_for = g.home_score[1]]
        s2 == [s1 EXCEPT ![home].points_against = g.away_score[1]]
        s3 == [s2 EXCEPT ![away].points_for = g.away_score[1]]
    IN  [s3 EXCEPT ![away].points_against = g.home_score[1]]

\* variant of UpdatePoints whose last statement adds away_score
UpdatePointsCopyPaste(st, g) ==
    LET home == g.home_team
        away == g.away_team
        home_score == g.home_score[1]
        away_score == g.away_score[1]
        s1 == [st EXCEPT ![home].points_for = @ + home_score]
        s2 == [s1 EXCEPT ![home].points_against = @ + away_score]
        s3 == [s2 EXCEPT ![away].points_for = @ + away_score]
    IN  [s3 EXCEPT ![away].points_against = @ + away_score]

\* the four += statements, in program order on the one dict
UpdatePoints(st, g) ==
    LET home == g.home_team
        away == g.away_team
        home_score == g.home_score[1]
        away_score == g.away_score[1]
        s1 == [st EXCEPT ![home].points_for = @ + home_score]
        s2 == [s1 EXCEPT ![home].points_against = @ + away_score]
        s3 == [s2 EXCEPT ![away].points_for = @ + away_score]
    IN  [s3 EXCEPT ![away].points_against = @ + home_score]

\* variant of UpdateRecords whose first branch leaves the away losses alone
UpdateRecordsNoLoss(st, g) ==
    LET home == g.home_team
        away == g.away_team
        res == g.result[1]
    IN  IF res > 0
        THEN [st EXCEPT ![home].wins = @ + 1]
        ELSE IF res < 0
        THEN LET s1 == [st EXCEPT ![home].losses = @ + 1]
             IN  [s1 EXCEPT ![away].wins = @ + 1]
        ELSE LET s1 == [st EXCEPT ![home].ties = @ + 1]
             IN  [s1 EXCEPT ![away].ties = @ + 1]

\* variant of UpdateRecords whose last branch counts the tie for home only
UpdateRecordsTieHomeOnly(st, g) ==
    LET home == g.home_team
        away == g.away_team
        res == g.result[1]
    IN  IF res > 0
        THEN LET s1 == [st EXCEPT ![home].wins = @ + 1]
             IN  [s1 EXCEPT ![away].losses = @ + 1]
        ELSE IF res < 0
        THEN LET s1 == [st EXCEPT ![home].losses = @ + 1]
             IN  [s1 EXCEPT ![away].wins = @ + 1]
        ELSE [st EXCEPT ![home].ties = @ + 1]

\* variant of UpdateRecords that tests res >= 0 and has no tie branch
UpdateRecordsGE(st, g) ==
    LET home == g.home_team
        away == g.away_team
        res == g.result[1]
    IN  IF res >= 0
        THEN LET s1 == [st EXCEPT ![home].wins = @ + 1]
             IN  [s1 EXCEPT ![away].losses = @ + 1]
        ELSE LET s1 == [st EXCEPT ![home].losses = @ + 1]
             IN  [s1 EXCEPT ![away].wins = @ + 1]

\* the if / elif / else on res = game['result']
UpdateRecords(st, g) ==
    LET home == g.home_team
        away == g.away_team
        res == g.result[1]
    IN  IF res > 0
        THEN LET s1 == [st EXCEPT ![home].wins = @ + 1]
             IN  [s1 EXCEPT ![away].losses = @ + 1]
        ELSE IF res < 0
        THEN LET s1 == [st EXCEPT ![home].losses = @ + 1]
             IN  [s1 EXCEPT ![away].wins = @ + 1]
        ELSE LET s1 == [st EXCEPT ![home].ties = @ + 1]
             IN  [s1 EXCEPT ![away].ties = @ + 1]

\* one iteration of the loop over games.iterrows()
GameStep(st, g) == UpdateRecords(UpdatePoints(st, g), g)

\* the whole loop over games.iterrows(), first row first
RECURSIVE RunLoop(_, _)
RunLoop(st, games) ==
    IF games = <<>> THEN st ELSE RunLoop(GameStep(st, Head(games)), Tail(games))

\* variant of WinPct that counts a tie as a whole win
WinPctTiesFull(stats) ==
    LET total_games == stats.wins + stats.losses + stats.ties
    IN  IF total_games > 0
        THEN Ratio(2 * stats.wins + 2 * stats.ties, 2 * total_games)
        ELSE <<0, 1>>

\* (wins + 0.5 * ties) / total_games if total_games > 0 else 0, as the
\* rational it denotes
WinPct(stats) ==
    LET total_games == stats.wins + stats.losses + stats.ties
    IN  IF total_games > 0
        THEN Ratio(2 * stats.wins + stats.ties, 2 * total_games)
        ELSE <<0, 1>>

UnknownMeta == Meta("Unknown", "Unknown")

\* the dict appended to results for one team
MakeRecord(team, stats, tmap) ==
    LET meta == IF team \in DOMAIN tmap THEN tmap[team] ELSE UnknownMeta
    IN  [team_name |-> team,
         wins |-> stats.wins,
         losses |-> stats.losses,
         ties |-> stats.ties,
         points_for |-> stats.points_for,
         points_against |-> stats.points_against,
         win_pct |-> WinPct(stats),
         conference |-> meta.team_conf,
         division |-> meta.team_division]

\* the loop over standings.items(); keys is the order in which the dict
\* yields its teams
BuildResults(keys, st, tmap) ==
    [k \in 1..Len(keys) |-> MakeRecord(keys[k], st[keys[k]], tmap)]

\* calculate_standings as a function of what the provider returned: the
\* records of the returned list, whatever the dict order was
CalculateStandings(sched, tmap) ==
    LET played == Completed(sched)
        st == RunLoop(InitStandings(TeamsOf(played)), played)
    IN  {MakeRecord(t, st[t], tmap) : t \in DOMAIN st}

\* ------------------------------------------------------------ handlers
Ok(data) == [status |-> 200, data |-> data]

RootBody == [status |-> 200, message |-> "Sports Service is running"]

\* variant of HandleException that hides the text of the exception
HandleExceptionGeneric(e) == [status |-> 500, detail |-> "Internal Server Error"]

\* except Exception as e: raise HTTPException(status_code=500, detail=str(e))
HandleException(e) == [status |-> 500, detail |-> e]

\* variant of Placeholder that carries conference and division
PlaceholderWithMeta ==
    [team_name |-> "CHI", wins |-> 0, losses |-> 0, ties |-> 0,
     points_for |-> 0, points_against |-> 0, win_pct |-> <<0, 1>>,
     conference |-> "Unknown", division |-> "Unknown"]

Placeholder ==
    [team_name |-> "CHI", wins |-> 0, losses |-> 0, ties |-> 0,
     points_for |-> 0, points_against |-> 0, win_pct |-> <<0, 1>>]

\* next((t for t in data if t['team_name'] == 'CHI'), None) and the fallback
BearsOf(data) ==
    LET hits == {k \in 1..Len(data) : data[k].team_name = "CHI"}
    IN  IF hits = {} THEN Placeholder ELSE data[Min(hits)]

ColsToKeep ==
    <<"player_name", "position", "jersey_number", "status", "college",
      "years_exp", "headshot_url">>

FillNa(v) == IF v = NaN THEN "" ELSE v

\* filter on team == 'CHI', project on the kept columns present, fillna('')
RosterRecords(df) ==
    LET bears_df == SelectSeq(df.rows, LAMBDA row : row["team"] = "CHI")
        available_cols == {c \in Range(ColsToKeep) : c \in df.columns}
    IN  [k \in 1..Len(bears_df) |->
            [c \in available_cols |-> FillNa(bears_df[k][c])]]

\* ---------------------------------------------------------------- state
VARIABLES
    pc,         \* where each request is
    endpoint,   \* the route it was dispatched to
    schedule,   \* frame returned by import_schedules
    games,      \* local games after the notna filter
    standings,  \* local dict team -> counters
    i,          \* number of rows of games already iterated
    team_map,   \* local team_map
    results,    \* local results list
    roster,     \* frame returned by import_seasonal_rosters
    raised,     \* the exception the provider raised into this request
    calls,      \* number of calls of each provider function by this request
    response    \* what the request answered

vars == <<pc, endpoint, schedule, games, standings, i, team_map,
          results, roster, raised, calls, response>>

NoResponse == [status |-> 0]
NoException == [src |-> "none", text |-> ""]
NoCalls == [schedules |-> 0, team_desc |-> 0, rosters |-> 0]
NoFrame == [columns |-> {}, rows |-> <<>>]

Init ==
    /\ pc = [r \in Requests |-> "idle"]
    /\ endpoint = [r \in Requests |-> "none"]
    /\ schedule = [r \in Requests |-> <<>>]
    /\ games = [r \in Requests |-> <<>>]
    /\ standings = [r \in Requests |-> <<>>]
    /\ i = [r \in Requests |-> 0]
    /\ team_map = [r \in Requests |-> <<>>]
    /\ results = [r \in Requests |-> <<>>]
    /\ roster = [r \in Requests |-> NoFrame]
    /\ raised = [r \in Requests |-> NoException]
    /\ calls = [r \in Requests |-> NoCalls]
    /\ response = [r \in Requests |-> NoResponse]

\* GET /
ReadRoot(r) ==
    /\ pc[r] = "idle"
    /\ endpoint' = [endpoint EXCEPT ![r] = "root"]
    /\ response' = [response EXCEPT ![r] = RootBody]
    /\ pc' = [pc EXCEPT ![r] = "done"]
    /\ UNCHANGED <<schedule, games, standings, i, team_map, results,
                   roster, raised, calls>>

\* GET /api/sports/standings/{year} and /api/sports/bears/summary/{year}:
\* both enter calculate_standings first
EnterStandings(r) ==
    /\ pc[r] = "idle"
    /\ \E ep \in {"standings", "summary"} :
           endpoint' = [endpoint EXCEPT ![r] = ep]
    /\ pc' = [pc EXCEPT ![r] = "import_schedules"]
    /\ UNCHANGED <<schedule, games, standings, i, team_map, results,
                   roster, raised, calls, response>>

\* GET /api/sports/bears/roster/{year}
EnterRoster(r) ==
    /\ pc[r] = "idle"
    /\ endpoint' = [endpoint EXCEPT ![r] = "roster"]
    /\ pc' = [pc EXCEPT ![r] = "import_rosters"]
    /\ UNCHANGED <<schedule, games, standings, i, team_map, results,
                   roster, raised, calls, response>>

\* as ImportSchedules, with one dict of the module in place of the local:
\* a team another request in flight has counted keeps those counters
ImportSchedulesShared(r, S) ==
    /\ pc[r] = "import_schedules"
    /\ \E s \in S :
         LET played == Completed(s)
             teams == TeamsOf(played)
             seen(t) == {q \in Requests \ {r} : t \in DOMAIN standings[q]}
         IN  /\ schedule' = [schedule EXCEPT ![r] = s]
             /\ games' = [games EXCEPT ![r] = played]
             /\ standings' = [standings EXCEPT ![r] =
                    [t \in teams |->
                        IF seen(t) = {} THEN ZeroStats
                        ELSE standings[Min(seen(t))][t]]]
    /\ i' = [i EXCEPT ![r] = 0]
    /\ calls' = [calls EXCEPT ![r].schedules = @ + 1]
    /\ pc' = [pc EXCEPT ![r] = "loop"]
    /\ UNCHANGED <<endpoint, team_map, results, roster, raised, response>>

\* import_schedules returns; filter, fresh dict, one zero entry per team
ImportSchedules(r, S) ==
    /\ pc[r] = "import_schedules"
    /\ \E s \in S :
         LET played == Completed(s)
             teams == TeamsOf(played)
         IN  /\ schedule' = [schedule EXCEPT ![r] = s]
             /\ games' = [games EXCEPT ![r] = played]
             /\ standings' = [standings EXCEPT ![r] = InitStandings(teams)]
    /\ i' = [i EXCEPT ![r] = 0]
    /\ calls' = [calls EXCEPT ![r].schedules = @ + 1]
    /\ pc' = [pc EXCEPT ![r] = "loop"]
    /\ UNCHANGED <<endpoint, team_map, results, roster, raised, response>>

\* import_schedules raises; the handler's except clause answers
ImportSchedulesFails(r) ==
    /\ pc[r] = "import_schedules"
    /\ \E e \in Errors :
         /\ raised' = [raised EXCEPT ![r] = [src |-> "schedules", text |-> e]]
         /\ response' = [response EXCEPT ![r] = HandleException(e)]
    /\ calls' = [calls EXCEPT ![r].schedules = @ + 1]
    /\ pc' = [pc EXCEPT ![r] = "done"]
    /\ UNCHANGED <<endpoint, schedule, games, standings, i, team_map,
                   results, roster>>

\* one row of games.iterrows()
ProcessGame(r) ==
    /\ pc[r] = "loop"
    /\ i[r] < Len(games[r])
    /\ standings' = [standings EXCEPT ![r] = GameStep(@, games[r][i[r] + 1])]
    /\ i' = [i EXCEPT ![r] = @ + 1]
    /\ UNCHANGED <<pc, endpoint, schedule, games, team_map, results,
                   roster, raised, calls, response>>

\* import_team_desc returns and calculate_standings runs to its return: the
\* results list is built in the order o in which the dict, filled from a set
\* of strings, yields its teams
Calculated(r, M, o, m) ==
    /\ pc[r] = "loop"
    /\ i[r] = Len(games[r])
    /\ m \in M
    /\ o \in Perms(DOMAIN standings[r])
    /\ team_map' = [team_map EXCEPT ![r] = m]
    /\ results' = [results EXCEPT ![r] = BuildResults(o, standings[r], m)]
    /\ calls' = [calls EXCEPT ![r].team_desc = @ + 1]
    /\ pc' = [pc EXCEPT ![r] = "done"]
    /\ UNCHANGED <<endpoint, schedule, games, standings, i, roster, raised>>

\* get_standings: data = calculate_standings(year); return {"data": data}
ReturnStandings(r, M) ==
    /\ endpoint[r] = "standings"
    /\ \E m \in M : \E o \in Perms(DOMAIN standings[r]) :
         /\ Calculated(r, M, o, m)
         /\ response' = [response EXCEPT ![r] = Ok(results'[r])]

\* get_bears_summary: data = calculate_standings(year); pick CHI or the
\* fallback; return {"data": bears}
ReturnSummary(r, M) ==
    /\ endpoint[r] = "summary"
    /\ \E m \in M : \E o \in Perms(DOMAIN standings[r]) :
         /\ Calculated(r, M, o, m)
         /\ response' = [response EXCEPT ![r] = Ok(BearsOf(results'[r]))]

ImportTeamDescFails(r) ==
    /\ pc[r] = "loop"
    /\ i[r] = Len(games[r])
    /\ \E e \in Errors :
         /\ raised' = [raised EXCEPT ![r] = [src |-> "team_desc", text |-> e]]
         /\ response' = [response EXCEPT ![r] = HandleException(e)]
    /\ calls' = [calls EXCEPT ![r].team_desc = @ + 1]
    /\ pc' = [pc EXCEPT ![r] = "done"]
    /\ UNCHANGED <<endpoint, schedule, games, standings, i, team_map,
                   results, roster>>

\* get_bears_roster, retrieval succeeded
ImportRosters(r, F) ==
    /\ pc[r] = "import_rosters"
    /\ \E df \in F :
         /\ roster' = [roster EXCEPT ![r] = df]
         /\ response' = [response EXCEPT ![r] = Ok(RosterRecords(df))]
    /\ calls' = [calls EXCEPT ![r].rosters = @ + 1]
    /\ pc' = [pc EXCEPT ![r] = "done"]
    /\ UNCHANGED <<endpoint, schedule, games, standings, i, team_map,
                   results, raised>>

ImportRostersFails(r) ==
    /\ pc[r] = "import_rosters"
    /\ \E e \in Errors :
         /\ raised' = [raised EXCEPT ![r] = [src |-> "rosters", text |-> e]]
         /\ response' = [response EXCEPT ![r] = HandleException(e)]
    /\ calls' = [calls EXCEPT ![r].rosters = @ + 1]
    /\ pc' = [pc EXCEPT ![r] = "done"]
    /\ UNCHANGED <<endpoint, schedule, games, standings, i, team_map,
                   results, roster>>

\* the response is sent and the frame is gone; the worker takes a new request
Finish(r) ==
    /\ pc[r] = "done"
    /\ pc' = [pc EXCEPT ![r] = "idle"]
    /\ endpoint' = [endpoint EXCEPT ![r] = "none"]
    /\ schedule' = [schedule EXCEPT ![r] = <<>>]
    /\ games' = [games EXCEPT ![r] = <<>>]
    /\ standings' = [standings EXCEPT ![r] = <<>>]
    /\ i' = [i EXCEPT ![r] = 0]
    /\ team_map' = [team_map EXCEPT ![r] = <<>>]
    /\ results' = [results EXCEPT ![r] = <<>>]
    /\ roster' = [roster EXCEPT ![r] = NoFrame]
    /\ raised' = [raised EXCEPT ![r] = NoException]
    /\ calls' = [calls EXCEPT ![r] = NoCalls]
    /\ response' = [response EXCEPT ![r] = NoResponse]

\* one request at a time, every frame the provider may return
Next ==
    \E r \in Serial :
        \/ ReadRoot(r)
        \/ EnterStandings(r)
        \/ EnterRoster(r)
        \/ ImportSchedules(r, Schedules)
        \/ ImportSchedulesFails(r)
        \/ ProcessGame(r)
        \/ ReturnStandings(r, TeamMaps)
        \/ ReturnSummary(r, TeamMaps)
        \/ ImportTeamDescFails(r)
        \/ ImportRosters(r, RosterFrames)
        \/ ImportRostersFails(r)
        \/ Finish(r)

Spec == Init /\ [][Next]_vars

\* two requests in flight, interleaved at every step
NextConc ==
    \E r \in Requests :
        \/ ReadRoot(r)
        \/ EnterStandings(r)
        \/ EnterRoster(r)
        \/ ImportSchedules(r, ConcSchedules)
        \/ ImportSchedulesFails(r)
        \/ ProcessGame(r)
        \/ ReturnStandings(r, ConcTeamMaps)
        \/ ReturnSummary(r, ConcTeamMaps)
        \/ ImportTeamDescFails(r)
        \/ ImportRosters(r, ConcRosterFrames)
        \/ ImportRostersFails(r)
        \/ Finish(r)

SpecConc == Init /\ [][NextConc]_vars

TypeOK ==
    \A r \in Requests :
        /\ pc[r] \in {"idle", "import_schedules", "loop", "import_rosters", "done"}
        /\ i[r] \in 0..Len(games[r])

\* ------------------------------------------------------------ properties
\* calculate_standings has returned its list to the handler of request r
Returned(r) == calls[r].team_desc = 1 /\ raised[r] = NoException

RECURSIVE SumIdx(_, _)
SumIdx(f, J) ==
    IF J = {} THEN 0
    ELSE LET j == CHOOSE x \in J : TRUE IN f[j] + SumIdx(f, J \ {j})

Total(recs, field) == SumIdx([k \in 1..Len(recs) |-> recs[k][field]], 1..Len(recs))

\* rows of a schedule frame whose result is present
Played(s) == {j \in 1..Len(s) : s[j].result # NA}

AsHome(s, t) == {j \in Played(s) : s[j].home_team = t}
AsAway(s, t) == {j \in Played(s) : s[j].away_team = t}

ExpTeams(s) ==
    {s[j].home_team : j \in Played(s)} \cup {s[j].away_team : j \in Played(s)}

\* the counters of team t read off the frame, row by row
ExpStats(s, t) ==
    [wins |-> Cardinality({j \in AsHome(s, t) : s[j].result[1] > 0})
                + Cardinality({j \in AsAway(s, t) : s[j].result[1] < 0}),
     losses |-> Cardinality({j \in AsHome(s, t) : s[j].result[1] < 0})
                + Cardinality({j \in AsAway(s, t) : s[j].result[1] > 0}),
     ties |-> Cardinality({j \in AsHome(s, t) : s[j].result[1] = 0})
                + Cardinality({j \in AsAway(s, t) : s[j].result[1] = 0}),
     points_for |->
         SumIdx([j \in AsHome(s, t) |-> s[j].home_score[1]], AsHome(s, t))
           + SumIdx([j \in AsAway(s, t) |-> s[j].away_score[1]], AsAway(s, t)),
     points_against |->
         SumIdx([j \in AsHome(s, t) |-> s[j].away_score[1]], AsHome(s, t))
           + SumIdx([j \in AsAway(s, t) |-> s[j].home_score[1]], AsAway(s, t))]

Counters == {"wins", "losses", "ties", "points_for", "points_against"}

\* C1: in every list calculate_standings returns, the wins of all records
\* add up to the same number as the losses of all records.
C1_WinsEqualLosses ==
    \A r \in Requests :
        Returned(r) => Total(results[r], "wins") = Total(results[r], "losses")

C1_Witness ==
    \E r \in Requests :
        /\ Returned(r)
        /\ Len(results[r]) = 2
        /\ Total(results[r], "wins") >= 2

\* C2 as stated: wins + losses + ties of a returned record is the number of
\* completed games in which the team is home or away, a game of a team
\* against itself included.
C2_GamesPlayedOriginal ==
    \A r \in Requests :
        Returned(r) =>
            \A k \in 1..Len(results[r]) :
                LET rec == results[r][k]
                IN  rec.wins + rec.losses + rec.ties
                      = Cardinality(AsHome(schedule[r], rec.team_name)
                                      \cup AsAway(schedule[r], rec.team_name))

\* C2 amended: wins + losses + ties of a returned record is the number of
\* completed games in which the team is home plus the number in which it is
\* away (a game listing the team on both sides counts twice).
C2_GamesPlayed ==
    \A r \in Requests :
        Returned(r) =>
            \A k \in 1..Len(results[r]) :
                LET rec == results[r][k]
                IN  rec.wins + rec.losses + rec.ties
                      = Cardinality(AsHome(schedule[r], rec.team_name))
                          + Cardinality(AsAway(schedule[r], rec.team_name))

C2_Witness ==
    \E r \in Requests :
        /\ Returned(r)
        /\ \E j \in Played(schedule[r]) :
               schedule[r][j].home_team = schedule[r][j].away_team
        /\ \E j \in Played(schedule[r]) :
               /\ schedule[r][j].home_team # schedule[r][j].away_team
               /\ schedule[r][j].result[1] = 0

\* the row the loop of request r handles in this step
Row(r) == games[r][i[r] + 1]

\* C3: handling one completed game adds home_score to the home team's
\* points_for and the away team's points_against, away_score to the away
\* team's points_for and the home team's points_against, and nothing to any
\* other team; in every returned list points_for and points_against have the
\* same total.
C3_PointsSymmetric ==
    /\ [][\A r \in Requests :
            (pc[r] = "loop" /\ i'[r] = i[r] + 1) =>
                /\ DOMAIN standings'[r] = DOMAIN standings[r]
                /\ \A t \in DOMAIN standings[r] :
                     /\ standings'[r][t].points_for
                          = standings[r][t].points_for
                              + (IF t = Row(r).home_team THEN Row(r).home_score[1] ELSE 0)
                              + (IF t = Row(r).away_team THEN Row(r).away_score[1] ELSE 0)
                     /\ standings'[r][t].points_against
                          = standings[r][t].points_against
                              + (IF t = Row(r).home_team THEN Row(r).away_score[1] ELSE 0)
                              + (IF t = Row(r).away_team THEN Row(r).home_score[1] ELSE 0)]_vars
    /\ [](\A r \in Requests :
            Returned(r) =>
                Total(results[r], "points_for") = Total(results[r], "points_against"))

C3_Witness ==
    \E r \in Requests :
        /\ Returned(r)
        /\ Len(games[r]) = 2
        /\ games[r][2].home_team # games[r][2].away_team
        /\ games[r][2].home_score[1] > games[r][2].away_score[1]
        /\ Total(results[r], "points_for") >= 2

\* C4: the win_pct of a returned record is (wins + ties/2) / (wins + losses +
\* ties) when that total is positive and 0 when it is 0, and lies in [0, 1].
C4_WinPct ==
    \A r \in Requests :
        Returned(r) =>
            \A k \in 1..Len(results[r]) :
                LET rec == results[r][k]
                    total == rec.wins + rec.losses + rec.ties
                    num == rec.win_pct[1]
                    den == rec.win_pct[2]
                IN  /\ den > 0
                    /\ 0 <= num /\ num <= den
                    /\ total > 0 => num * 2 * total = (2 * rec.wins + rec.ties) * den
                    /\ total = 0 => num = 0

C4_Witness ==
    \E r \in Requests :
        /\ Returned(r)
        /\ \E k \in 1..Len(results[r]) :
               /\ results[r][k].ties > 0
               /\ results[r][k].wins > 0
               /\ results[r][k].win_pct = <<3, 4>>

\* C5: the returned list has exactly one record per team that is home or away
\* in a game with a result and none for any other team; games without a
\* result add nothing to any counter.
C5_TeamUniverse ==
    \A r \in Requests :
        Returned(r) =>
            /\ {results[r][k].team_name : k \in 1..Len(results[r])} = ExpTeams(schedule[r])
            /\ Len(results[r]) = Cardinality(ExpTeams(schedule[r]))
            /\ \A k \in 1..Len(results[r]) : \A c \in Counters :
                   results[r][k][c] = ExpStats(schedule[r], results[r][k].team_name)[c]

C5_Witness ==
    \E r \in Requests :
        /\ Returned(r)
        /\ Len(results[r]) = 1
        /\ \E j \in 1..Len(schedule[r]) :
               /\ schedule[r][j].result = NA
               /\ schedule[r][j].home_team \notin ExpTeams(schedule[r])

Bump(c) == IF c THEN 1 ELSE 0

ExampleWin == CalculateStandings(<<Game("AAA", "BBB", 24, 17)>>, <<>>)
ExampleTie == CalculateStandings(<<Game("AAA", "BBB", 14, 14)>>, <<>>)

\* C6: handling one completed game records one outcome by the sign of its
\* result: positive, home wins +1 and away losses +1; negative, home losses
\* +1 and away wins +1; zero, ties +1 for both; no other win, loss or tie
\* counter moves.  AAA 24 - BBB 17 alone gives AAA 1-0-0 at 1.0 and BBB 0-1-0
\* at 0.0; a 14-14 game alone gives both ties = 1 at 0.5.
C6_OneOutcome ==
    /\ [][\A r \in Requests :
            (pc[r] = "loop" /\ i'[r] = i[r] + 1) =>
                LET res == Row(r).result[1]
                    home == Row(r).home_team
                    away == Row(r).away_team
                IN  \A t \in DOMAIN standings[r] :
                      /\ standings'[r][t].wins = standings[r][t].wins
                           + Bump(t = home /\ res > 0) + Bump(t = away /\ res < 0)
                      /\ standings'[r][t].losses = standings[r][t].losses
                           + Bump(t = home /\ res < 0) + Bump(t = away /\ res > 0)
                      /\ standings'[r][t].ties = standings[r][t].ties
                           + Bump(t = home /\ res = 0) + Bump(t = away /\ res = 0)]_vars
    /\ [](/\ {<<x.team_name, x.wins, x.losses, x.ties, x.win_pct>> : x \in ExampleWin}
               = {<<"AAA", 1, 0, 0, <<1, 1>>>>, <<"BBB", 0, 1, 0, <<0, 1>>>>}
          /\ {<<x.team_name, x.wins, x.losses, x.ties, x.win_pct>> : x \in ExampleTie}
               = {<<"AAA", 0, 0, 1, <<1, 2>>>>, <<"BBB", 0, 0, 1, <<1, 2>>>>})

C6_Witness ==
    \E r \in Requests :
        /\ pc[r] = "loop"
        /\ i[r] = 2
        /\ games[r][1].result[1] = 0
        /\ games[r][2].result[1] < 0
        /\ games[r][2].home_team # games[r][2].away_team
        /\ standings[r][games[r][2].away_team].wins = 1

HasBears(recs) == \E k \in 1..Len(recs) : recs[k].team_name = "CHI"

\* C7: when every retrieval of a summary request succeeded, the answer is a
\* success; its data is the CHI record of the standings when there is one,
\* and otherwise CHI with all five counters and win_pct 0 and no conference
\* or division field.
C7_BearsPlaceholder ==
    \A r \in Requests :
        (pc[r] = "done" /\ endpoint[r] = "summary" /\ raised[r] = NoException) =>
            /\ response[r].status = 200
            /\ DOMAIN response[r] = {"status", "data"}
            /\ HasBears(results[r]) =>
                   \E k \in 1..Len(results[r]) :
                       /\ results[r][k].team_name = "CHI"
                       /\ response[r].data = results[r][k]
            /\ ~HasBears(results[r]) =>
                   /\ DOMAIN response[r].data
                        = {"team_name", "wins", "losses", "ties", "points_for",
                           "points_against", "win_pct"}
                   /\ response[r].data.team_name = "CHI"
                   /\ \A c \in Counters : response[r].data[c] = 0
                   /\ response[r].data.win_pct[1] = 0

C7_Witness ==
    \E r \in Requests :
        /\ pc[r] = "done" /\ endpoint[r] = "summary" /\ raised[r] = NoException
        /\ ~HasBears(results[r])
        /\ Len(results[r]) = 1
        /\ response[r].data.wins = 0

\* C8: a standings, summary or roster request whose retrieval raised ends
\* with status 500 and the raised text as detail, after exactly one call of
\* the retrieval that raised and at most one of any other; a root request
\* calls no retrieval and succeeds.
C8_FailureIs500 ==
    \A r \in Requests :
        /\ calls[r].schedules <= 1 /\ calls[r].team_desc <= 1 /\ calls[r].rosters <= 1
        /\ raised[r] # NoException =>
               /\ pc[r] = "done"
               /\ endpoint[r] \in {"standings", "summary", "roster"}
               /\ response[r] = [status |-> 500, detail |-> raised[r].text]
               /\ calls[r][raised[r].src] = 1
        /\ (pc[r] = "done" /\ response[r].status = 200) => raised[r] = NoException
        /\ endpoint[r] = "root" =>
               /\ calls[r] = NoCalls
               /\ response[r] = [status |-> 200, message |-> "Sports Service is running"]

C8_Witness ==
    \E r \in Requests :
        /\ pc[r] = "done"
        /\ endpoint[r] = "summary"
        /\ raised[r].src = "team_desc"
        /\ calls[r].schedules = 1
        /\ Len(games[r]) > 0
        /\ response[r].status = 500

\* the record of team t as one request alone must report it
ExpRecord(s, t, tmap) ==
    LET st == ExpStats(s, t)
        total == st.wins + st.losses + st.ties
    IN  [team_name |-> t, wins |-> st.wins, losses |-> st.losses, ties |-> st.ties,
         points_for |-> st.points_for, points_against |-> st.points_against,
         win_pct |-> IF total > 0 THEN Ratio(2 * st.wins + st.ties, 2 * total)
                     ELSE <<0, 1>>,
         conference |-> IF t \in DOMAIN tmap THEN tmap[t].team_conf ELSE "Unknown",
         division |-> IF t \in DOMAIN tmap THEN tmap[t].team_division ELSE "Unknown"]

\* the answer of request r is the one its own retrievals determine
AnswersAlone(r) ==
    IF endpoint[r] = "root"
    THEN response[r] = [status |-> 200, message |-> "Sports Service is running"]
    ELSE IF raised[r] # NoException
    THEN response[r] = [status |-> 500, detail |-> raised[r].text]
    ELSE IF endpoint[r] = "standings"
    THEN /\ response[r].status = 200
         /\ Len(response[r].data) = Cardinality(ExpTeams(schedule[r]))
         /\ Range(response[r].data)
              = {ExpRecord(schedule[r], t, team_map[r]) : t \in ExpTeams(schedule[r])}
    ELSE IF endpoint[r] = "summary"
    THEN /\ response[r].status = 200
         /\ IF "CHI" \in ExpTeams(schedule[r])
            THEN response[r].data = ExpRecord(schedule[r], "CHI", team_map[r])
            ELSE response[r].data
                   = [team_name |-> "CHI", wins |-> 0, losses |-> 0, ties |-> 0,
                      points_for |-> 0, points_against |-> 0, win_pct |-> <<0, 1>>]
    ELSE LET chi == SelectSeq(roster[r].rows, LAMBDA row : row["team"] = "CHI")
         IN  /\ response[r].status = 200
             /\ Len(response[r].data) = Len(chi)
             /\ \A k \in 1..Len(chi) :
                    /\ DOMAIN response[r].data[k] = roster[r].columns \cap Range(ColsToKeep)
                    /\ \A c \in DOMAIN response[r].data[k] :
                           response[r].data[k][c] = IF chi[k][c] = NaN THEN "" ELSE chi[k][c]

\* C9: whatever else is in flight and whatever ran before, a request answers
\* what its own retrievals determine, and it starts from an empty accumulator
\* with no counter set.
C9_RequestLocal ==
    \A r \in Requests :
        /\ pc[r] = "done" => AnswersAlone(r)
        /\ pc[r] \in {"idle", "import_schedules", "import_rosters"} =>
               standings[r] = <<>> /\ results[r] = <<>>
        /\ (pc[r] = "loop" /\ i[r] = 0) =>
               \A t \in DOMAIN standings[r] : \A c \in Counters : standings[r][t][c] = 0

C9_Witness ==
    /\ pc[1] = "done" /\ endpoint[1] = "standings" /\ Returned(1)
    /\ pc[2] = "loop" /\ i[2] = 1 /\ Len(games[2]) = 2
    /\ schedule[1] # schedule[2]
    /\ Len(response[1].data) = 2

Reorder(s, p) == [k \in 1..Len(s) |-> s[p[k]]]

\* C10: the records do not depend on the order of the games: every
\* reordering of the rows the provider returned gives the same record for
\* every team.
C10_OrderIndependent ==
    \A r \in Requests :
        Returned(r) =>
            \A p \in Perms(1..Len(schedule[r])) :
                CalculateStandings(Reorder(schedule[r], p), team_map[r])
                  = Range(results[r])

C10_Witness ==
    \E r \in Requests :
        /\ Returned(r)
        /\ Len(games[r]) = 2
        /\ games[r][1] # games[r][2]
        /\ games[r][1].home_team = games[r][2].home_team
        /\ games[r][1].home_score # games[r][2].home_score
====
